---- MODULE Spec2Model ----
(***************************************************************************)
(* dhash: the difference hash of an image (src/src/lib.rs) and the command *)
(* line program that hashes one or two images and prints the Hamming       *)
(* distance between the hashes (src/src/main.rs).                          *)
(*                                                                         *)
(* A u64 is kept as four 16-bit limbs, least significant first, so that    *)
(* every intermediate number stays a small integer, while the             *)
(* 64-bit width, the carries and the overflow of the packing stay visible. *)
(***************************************************************************)
EXTENDS Integers, Sequences, FiniteSets, TLC

\* ------------------------------------------------------------------ bounds
\* arbitrary small source images are at most MaxW wide and MaxH high
MaxW == 2
MaxH == 2
\* synthetic gradient images are 1..MaxGradW wide
MaxGradW == 12
\* the sample hashes of SpecHamming: MaxSampleBits single bits, BitStride apart
MaxSampleBits == 4
BitStride == 21

\* --------------------------------------------------------------- constants
IMG_SCALE == 8
\* width of the hash (u64) and of one limb of its representation
U64_BITS == 64
LIMB_BITS == 16
\* largest value of a u8 channel
CHANNEL_MAX == 255
\* sRGB luma weights of the grayscale conversion
LUMA_R == 2126
LUMA_G == 7152
LUMA_B == 722
LUMA_DIV == 10000

RECURSIVE Pow2(_)
Pow2(n) == IF n = 0 THEN 1 ELSE 2 * Pow2(n - 1)

LIMB_BASE == Pow2(LIMB_BITS)
NLIMBS == U64_BITS \div LIMB_BITS

Min(a, b) == IF a < b THEN a ELSE b

\* ------------------------------------------------------------ u64 as limbs
Zero64 == [n \in 1..NLIMBS |-> 0]
Ones64 == [n \in 1..NLIMBS |-> LIMB_BASE - 1]

\* bit k (0 = least significant) of the u64 h
Bit(h, k) == (h[(k \div LIMB_BITS) + 1] \div Pow2(k % LIMB_BITS)) % 2

\* 1 << k for a u64 1 and k < 64
Shl1(k) == [n \in 1..NLIMBS |-> IF n = (k \div LIMB_BITS) + 1 THEN Pow2(k % LIMB_BITS) ELSE 0]

\* the carry into limb n of a + b
RECURSIVE Carry(_, _, _)
Carry(a, b, n) == IF n = 1 THEN 0 ELSE (a[n - 1] + b[n - 1] + Carry(a, b, n - 1)) \div LIMB_BASE

\* a + b on u64: the wrapped sum and whether a carry left the 64 bits
Add64(a, b) ==
    [val |-> [n \in 1..NLIMBS |-> (a[n] + b[n] + Carry(a, b, n)) % LIMB_BASE],
     carry |-> Carry(a, b, NLIMBS + 1) > 0]

\* x ^ y on naturals below 2^bits
RECURSIVE XorNat(_, _)
XorNat(x, y) ==
    IF x = 0 /\ y = 0 THEN 0
    ELSE (((x % 2) + (y % 2)) % 2) + 2 * XorNat(x \div 2, y \div 2)

\* left ^ right on u64
Xor64(left, right) == [n \in 1..NLIMBS |-> XorNat(left[n], right[n])]

\* the number of one bits of a natural
RECURSIVE OnesNat(_)
OnesNat(x) == IF x = 0 THEN 0 ELSE (x % 2) + OnesNat(x \div 2)

\* u64::count_ones
RECURSIVE SumLimbs(_, _)
SumLimbs(h, n) == IF n = 0 THEN 0 ELSE OnesNat(h[n]) + SumLimbs(h, n - 1)
count_ones(h) == SumLimbs(h, NLIMBS)

\* x & !y and x | y on naturals
RECURSIVE AndNotNat(_, _)
AndNotNat(x, y) ==
    IF x = 0 THEN 0
    ELSE ((x % 2) * (1 - (y % 2))) + 2 * AndNotNat(x \div 2, y \div 2)
RECURSIVE OrNat(_, _)
OrNat(x, y) ==
    IF x = 0 /\ y = 0 THEN 0
    ELSE (IF x % 2 = 1 \/ y % 2 = 1 THEN 1 ELSE 0) + 2 * OrNat(x \div 2, y \div 2)

\* the distance if the xor were an and-not: (left & !right).count_ones()
hamming_distance_andnot(left, right) ==
    count_ones([n \in 1..NLIMBS |-> AndNotNat(left[n], right[n])])

\* the distance if the xor were an or: (left | right).count_ones()
hamming_distance_or(left, right) ==
    count_ones([n \in 1..NLIMBS |-> OrNat(left[n], right[n])])

hamming_distance(left, right) == count_ones(Xor64(left, right))

\* ------------------------------------------------------------------ images
\* An image is [width, height, px], px a function on Coords(width, height).
\* A source pixel is <<r, g, b>> of u8 channels; a gray sample is one number.
Coords(w, h) == (0..(w - 1)) \X (0..(h - 1))

ZeroDim(img) == img.width = 0 \/ img.height = 0

InBounds(img, x, y) == x >= 0 /\ x < img.width /\ y >= 0 /\ y < img.height

get_pixel(img, x, y) == img.px[<<x, y>>]

\* a gray conversion that averages the channels in a u8 and wraps
rgb_to_luma_wrapping(p) == ((p[1] + p[2] + p[3]) % (CHANNEL_MAX + 1)) \div 3

\* Pixel::to_luma of an rgb pixel, with the integer sRGB weights
rgb_to_luma(p) == (LUMA_R * p[1] + LUMA_G * p[2] + LUMA_B * p[3]) \div LUMA_DIV

\* imageops::grayscale: every pixel to its luma, same dimensions
grayscale(img) ==
    [width |-> img.width, height |-> img.height,
     px |-> [c \in DOMAIN img.px |-> rgb_to_luma(img.px[c])]]

\* FilterType::Nearest: the one source index that output index o samples when
\* `size` samples are resampled to `new`: floor((o + 0.5) * size / new),
\* clamped to the source
NearestIndex(o, size, new) == Min(((2 * o + 1) * size) \div (2 * new), size - 1)

\* a resize that blends each nearest sample with its right-hand neighbour
resize_blend(img, nwidth, nheight) ==
    [width |-> nwidth, height |-> nheight,
     px |-> [c \in Coords(nwidth, nheight) |->
               LET sx == NearestIndex(c[1], img.width, nwidth)
                   sy == NearestIndex(c[2], img.height, nheight)
               IN  (img.px[<<sx, sy>>] + img.px[<<Min(sx + 1, img.width - 1), sy>>]) \div 2]]

\* imageops::resize(img, nwidth, nheight, FilterType::Nearest) for a source with
\* at least one pixel: the vertical and the horizontal pass each pick one index
resize(img, nwidth, nheight) ==
    [width |-> nwidth, height |-> nheight,
     px |-> [c \in Coords(nwidth, nheight) |->
               img.px[<<NearestIndex(c[1], img.width, nwidth),
                        NearestIndex(c[2], img.height, nheight)>>]]]

NoGrid == [width |-> 0, height |-> 0, px |-> [c \in Coords(0, 0) |-> 0]]

\* what the resampler leaves of a source without pixels: a grid of zeros
DegenerateGrid ==
    [width |-> IMG_SCALE + 1, height |-> IMG_SCALE,
     px |-> [c \in Coords(IMG_SCALE + 1, IMG_SCALE) |-> 0]]

\* to_grey_signature_image: the outcomes of the call. There is no check of the
\* dimensions; a source without pixels either panics inside the resampler or
\* comes back as the grid of zeros, depending on the resampler's build.
to_grey_signature_image(img) ==
    IF ZeroDim(img)
    THEN {[panic |-> TRUE, grid |-> NoGrid], [panic |-> FALSE, grid |-> DegenerateGrid]}
    ELSE {[panic |-> FALSE, grid |-> resize(grayscale(img), IMG_SCALE + 1, IMG_SCALE)]}

\* ------------------------------------------------- the images that are opened
Gray(v) == <<v, v, v>>

\* two colours of different luma (147 and 51)
PaletteColours == {<<10, 200, 30>>, <<200, 10, 30>>}

\* every image of at most MaxW x MaxH pixels over the palette, the images with
\* a zero width or height among them
SmallImages ==
    UNION {{[width |-> w, height |-> h, px |-> f] : f \in [Coords(w, h) -> PaletteColours]} :
              <<w, h>> \in (0..MaxW) \X (0..MaxH)}

\* 9x8 images of one gray level except for one darker or brighter pixel
BumpLevels == {40, 160}
Bump(x0, y0, v) ==
    [width |-> IMG_SCALE + 1, height |-> IMG_SCALE,
     px |-> [c \in Coords(IMG_SCALE + 1, IMG_SCALE) |->
               IF c = <<x0, y0>> THEN Gray(v) ELSE Gray(100)]]
BumpImages ==
    {Bump(c[1], c[2], v) : c \in Coords(IMG_SCALE + 1, IMG_SCALE), v \in BumpLevels}

\* column x has intensity (scale - x) * 10 in every row
Ramp(w, h) ==
    [width |-> w, height |-> h,
     px |-> [c \in Coords(w, h) |-> Gray((IMG_SCALE - c[1]) * 10)]]
RampImages == {Ramp(IMG_SCALE + 1, h) : h \in {1, IMG_SCALE}}

\* the horizontal gradient from white to black, rendered w pixels wide
\* and h pixels high
Gradient(w, h) ==
    [width |-> w, height |-> h,
     px |-> [c \in Coords(w, h) |->
               Gray(IF w = 1 THEN CHANNEL_MAX
                    ELSE CHANNEL_MAX - ((CHANNEL_MAX * c[1]) \div (w - 1)))]]
GradientHeights == {1, 3}
GradientImages == {Gradient(w, h) : w \in 1..MaxGradW, h \in GradientHeights}

\* coloured textures, some larger than the signature image
PatternSeeds == {37, 101}
PatternSizes == {<<9, 8>>, <<13, 11>>, <<20, 17>>}
Pattern(w, h, a, b) ==
    [width |-> w, height |-> h,
     px |-> [c \in Coords(w, h) |->
               <<(a * c[1] + b * c[2]) % (CHANNEL_MAX + 1),
                 (b * c[1] * c[2]) % (CHANNEL_MAX + 1),
                 (a * c[2] + c[1]) % (CHANNEL_MAX + 1)>>]]
PatternImages ==
    {Pattern(d[1], d[2], a, b) : d \in PatternSizes, a \in PatternSeeds, b \in PatternSeeds}

InputImages == SmallImages \cup BumpImages \cup RampImages \cup GradientImages \cup PatternImages

\* the same image with c added to every channel, clipped to the u8 range
Brighten(img, c) ==
    [img EXCEPT !.px = [q \in DOMAIN img.px |->
        [n \in 1..3 |-> Min(img.px[q][n] + c, CHANNEL_MAX)]]]

\* adding c clips no channel of img
NoClip(img, c) == \A q \in DOMAIN img.px : \A n \in 1..3 : img.px[q][n] + c <= CHANNEL_MAX

BrightnessOffsets == {20, 100}

\* the second images the program is run with: the first one brightened, and
\* for a gradient the same gradient at the other widths
CompareImages(img) ==
    {Brighten(img, c) : c \in BrightnessOffsets}
      \cup (IF img \in GradientImages THEN GradientImages ELSE {})

\* ------------------------------------------------------------------- state
VARIABLES
    pc,              \* where main is: open_input, get_dhash, extract, pack,
                     \* return, open_compare, distance, done, panicked; hamming
    which,           \* the image get_dhash is running on: "input" or "compare"
    input,           \* main: img
    compare,         \* main: compare_img
    buffered_image,  \* get_dhash: the 9x8 gray grid
    bits,            \* get_dhash: bits[0..63]
    cur_value,       \* get_dhash: index of the next bit written
    i, j,            \* get_dhash: column and row of the extraction loop
    visits,          \* how often each (column, row) cell has been compared
    idx,             \* get_dhash: i of the packing loop
    value,           \* get_dhash: the hash being packed
    wrapped,         \* an addition of the packing loop left the 64 bits
    input_dhash,     \* main: input_dhash
    compare_dhash,   \* main: compare_dhash
    distance,        \* main: the distance printed
    hd_left, hd_right,  \* hamming_distance called on its own: the arguments
    hd_result,       \* its result, -1 before the call
    hd_prev          \* the result of the call with the arguments swapped, or -1

vars == <<pc, which, input, compare, buffered_image, bits, cur_value, i, j, visits,
          idx, value, wrapped, input_dhash, compare_dhash, distance,
          hd_left, hd_right, hd_result, hd_prev>>

NoImage == [width |-> -1, height |-> -1, px |-> [c \in Coords(0, 0) |-> Gray(0)]]
NoHash == [n \in 1..NLIMBS |-> -1]
NoBits == [k \in 0..(IMG_SCALE * IMG_SCALE - 1) |-> FALSE]
NoVisits == [c \in Coords(IMG_SCALE, IMG_SCALE) |-> 0]

\* the image of the running get_dhash call
Img == IF which = "input" THEN input ELSE compare

dhash_vars == <<buffered_image, bits, cur_value, i, j, visits, idx, value, wrapped>>
main_vars == <<input, compare, input_dhash, compare_dhash, distance>>
hd_vars == <<hd_left, hd_right, hd_result, hd_prev>>

Init ==
    /\ pc = "open_input"
    /\ which = "input"
    /\ input = NoImage
    /\ compare = NoImage
    /\ buffered_image = NoGrid
    /\ bits = NoBits
    /\ cur_value = 0
    /\ i = 0
    /\ j = 0
    /\ visits = NoVisits
    /\ idx = 0
    /\ value = Zero64
    /\ wrapped = FALSE
    /\ input_dhash = NoHash
    /\ compare_dhash = NoHash
    /\ distance = -1
    /\ hd_left = Zero64
    /\ hd_right = Zero64
    /\ hd_result = -1
    /\ hd_prev = -1

\* main: image::open(&context.input), then get_dhash(&img) is called
OpenInput ==
    /\ pc = "open_input"
    /\ \E img \in InputImages : input' = img
    /\ which' = "input"
    /\ pc' = "get_dhash"
    /\ UNCHANGED <<compare, input_dhash, compare_dhash, distance, dhash_vars, hd_vars>>

\* get_dhash up to its first loop: the signature image, bits and cur_value
GetDhashEnter ==
    /\ pc = "get_dhash"
    /\ \E out \in to_grey_signature_image(Img) :
         IF out.panic
         THEN /\ pc' = "panicked"
              /\ UNCHANGED dhash_vars
         ELSE /\ pc' = "extract"
              /\ buffered_image' = out.grid
              /\ bits' = NoBits
              /\ cur_value' = 0
              /\ i' = 0
              /\ j' = 0
              /\ visits' = NoVisits
              /\ UNCHANGED <<idx, value, wrapped>>
    /\ UNCHANGED <<which, main_vars, hd_vars>>

\* left_pixel[0] >= right_pixel[0]
Compare_ge(left_pixel, right_pixel) == left_pixel >= right_pixel

\* left_pixel[0] > right_pixel[0]
Compare(left_pixel, right_pixel) == left_pixel > right_pixel

\* the bounds of a loop that runs its columns over 0..=IMG_SCALE
ColEnd_inclusive == IMG_SCALE + 1

\* the exclusive ends of `for i in 0..IMG_SCALE` and `for j in 0..IMG_SCALE`
ColEnd == IMG_SCALE
RowEnd == IMG_SCALE

\* one pass of the body of the extraction loop, and the step of the loops
ExtractStep ==
    /\ pc = "extract"
    /\ IF /\ InBounds(buffered_image, i, j)
          /\ InBounds(buffered_image, i + 1, j)
          /\ cur_value \in DOMAIN bits
       THEN /\ bits' = [bits EXCEPT ![cur_value] =
                           Compare(get_pixel(buffered_image, i, j),
                                   get_pixel(buffered_image, i + 1, j))]
            /\ cur_value' = cur_value + 1
            /\ visits' = [c \in DOMAIN visits \cup {<<i, j>>} |->
                            (IF c \in DOMAIN visits THEN visits[c] ELSE 0)
                              + (IF c = <<i, j>> THEN 1 ELSE 0)]
            /\ IF j + 1 < RowEnd
               THEN /\ j' = j + 1
                    /\ i' = i
                    /\ pc' = "extract"
                    /\ UNCHANGED <<idx, value, wrapped>>
               ELSE IF i + 1 < ColEnd
               THEN /\ j' = 0
                    /\ i' = i + 1
                    /\ pc' = "extract"
                    /\ UNCHANGED <<idx, value, wrapped>>
               ELSE /\ j' = 0
                    /\ i' = i + 1
                    /\ idx' = 0
                    /\ value' = Zero64
                    /\ wrapped' = FALSE
                    /\ pc' = "pack"
            /\ UNCHANGED buffered_image
       ELSE \* get_pixel or bits[cur_value] out of bounds
            /\ pc' = "panicked"
            /\ UNCHANGED dhash_vars
    /\ UNCHANGED <<which, main_vars, hd_vars>>

\* 1 << i with the 1 a u32 whose shift amount wraps at 32
PackTerm_u32(k) == Shl1(k % 32)

\* 1 << (i + 1); the bit shifted out of the 64 is lost
PackTerm_next(k) == Shl1(k + 1)

\* 1 << i of the packing loop
PackTerm(k) == Shl1(k)

\* one pass of the packing loop: value += 1 << i when bits[i]. An addition that
\* leaves the 64 bits panics (overflow checks on) or wraps (overflow checks off).
PackStep ==
    /\ pc = "pack"
    /\ idx < IMG_SCALE * IMG_SCALE
    /\ LET sum == IF bits[idx] THEN Add64(value, PackTerm(idx))
                  ELSE [val |-> value, carry |-> FALSE]
       IN  \E checked \in IF sum.carry THEN {TRUE, FALSE} ELSE {FALSE} :
             IF checked
             THEN /\ pc' = "panicked"
                  /\ UNCHANGED <<idx, value, wrapped>>
             ELSE /\ value' = sum.val
                  /\ wrapped' = (wrapped \/ sum.carry)
                  /\ idx' = idx + 1
                  /\ pc' = IF idx + 1 < IMG_SCALE * IMG_SCALE THEN "pack" ELSE "return"
    /\ UNCHANGED <<buffered_image, bits, cur_value, i, j, visits, which, main_vars, hd_vars>>

\* return value; main keeps it as input_dhash and prints it
ReturnInput ==
    /\ pc = "return"
    /\ which = "input"
    /\ input_dhash' = value
    /\ pc' = "open_compare"
    /\ UNCHANGED <<which, input, compare, compare_dhash, distance, dhash_vars, hd_vars>>

\* main without a second path: nothing more is printed
NoCompare ==
    /\ pc = "open_compare"
    /\ pc' = "done"
    /\ UNCHANGED <<which, main_vars, dhash_vars, hd_vars>>

\* main with a second path: image::open(&compare), then get_dhash(&compare_img)
OpenCompare ==
    /\ pc = "open_compare"
    /\ \E img \in CompareImages(input) : compare' = img
    /\ which' = "compare"
    /\ pc' = "get_dhash"
    /\ UNCHANGED <<input, input_dhash, compare_dhash, distance, dhash_vars, hd_vars>>

\* return value; main keeps it as compare_dhash and prints it
ReturnCompare ==
    /\ pc = "return"
    /\ which = "compare"
    /\ compare_dhash' = value
    /\ pc' = "distance"
    /\ UNCHANGED <<which, input, compare, input_dhash, distance, dhash_vars, hd_vars>>

\* main: hamming_distance(input_dhash, compare_dhash) is printed
Distance ==
    /\ pc = "distance"
    /\ distance' = hamming_distance(input_dhash, compare_dhash)
    /\ pc' = "done"
    /\ UNCHANGED <<which, input, compare, input_dhash, compare_dhash, dhash_vars, hd_vars>>

Next ==
    \/ OpenInput
    \/ GetDhashEnter
    \/ ExtractStep
    \/ PackStep
    \/ ReturnInput
    \/ NoCompare
    \/ OpenCompare
    \/ ReturnCompare
    \/ Distance

Spec == Init /\ [][Next]_vars

\* ------------------------------------------ hamming_distance called on its own
\* the example of the documentation: 4485936524854165493 and 3337201687795727957
DocLeft == <<65525, 30945, 16256, 15937>>
DocRight == <<65109, 63717, 8000, 11856>>

SingleBits == {Shl1((BitStride * k) % U64_BITS) : k \in 0..(MaxSampleBits - 1)}

HashSamples ==
    {Zero64, Ones64, DocLeft, DocRight} \cup SingleBits
      \cup {Xor64(DocLeft, h) : h \in SingleBits}

InitHamming ==
    /\ pc = "hamming"
    /\ which = "input"
    /\ input = NoImage
    /\ compare = NoImage
    /\ buffered_image = NoGrid
    /\ bits = NoBits
    /\ cur_value = 0
    /\ i = 0
    /\ j = 0
    /\ visits = NoVisits
    /\ idx = 0
    /\ value = Zero64
    /\ wrapped = FALSE
    /\ input_dhash = NoHash
    /\ compare_dhash = NoHash
    /\ distance = -1
    /\ hd_left \in HashSamples
    /\ hd_right \in HashSamples
    /\ hd_result = -1
    /\ hd_prev = -1

\* hamming_distance(left, right)
HDCall ==
    /\ pc = "hamming"
    /\ hd_result = -1
    /\ hd_result' = hamming_distance(hd_left, hd_right)
    /\ UNCHANGED <<pc, which, main_vars, dhash_vars, hd_left, hd_right, hd_prev>>

\* the caller keeps the result and sets up the call with the arguments swapped
HDSwap ==
    /\ pc = "hamming"
    /\ hd_result # -1
    /\ hd_prev = -1
    /\ hd_prev' = hd_result
    /\ hd_result' = -1
    /\ hd_left' = hd_right
    /\ hd_right' = hd_left
    /\ UNCHANGED <<pc, which, main_vars, dhash_vars>>

NextHamming == HDCall \/ HDSwap

SpecHamming == InitHamming /\ [][NextHamming]_vars

\* ------------------------------------------------------------------ claims
Bits64 == 0..(U64_BITS - 1)
Returned == pc = "return"
GridCell(k) == <<k \div IMG_SCALE, k % IMG_SCALE>>
Uniform(g) == \A c \in DOMAIN g.px : g.px[c] = g.px[<<0, 0>>]
IsRamp(g) ==
    /\ g.width = IMG_SCALE + 1
    /\ \A c \in DOMAIN g.px : g.px[c] = (IMG_SCALE - c[1]) * 10

\* C1: when get_dhash returns, bit k = i*8 + j of the hash is set exactly when
\* the grid's sample at column i, row j is strictly greater than the sample at
\* column i+1, row j; the hash has no other bits.
C1_BitIffLeftGreater ==
    Returned =>
        /\ DOMAIN value = 1..NLIMBS
        /\ \A n \in 1..NLIMBS : value[n] \in 0..(LIMB_BASE - 1)
        /\ \A k \in Bits64 :
             (Bit(value, k) = 1) <=>
                (buffered_image.px[GridCell(k)]
                   > buffered_image.px[<<GridCell(k)[1] + 1, GridCell(k)[2]>>])

\* a grid whose only strict drop is from column 1 to column 2 in row 2 has
\* returned the hash with bit 1*8 + 2 alone
C1_Witness ==
    /\ Returned
    /\ value = Shl1(10)
    /\ buffered_image.px[<<1, 2>>] > buffered_image.px[<<2, 2>>]
    /\ buffered_image.px[<<2, 1>>] = buffered_image.px[<<3, 1>>]

\* C2: hamming_distance(a, b) is the number of bit positions in which a and b
\* differ; the documentation's pair gives 11.
C2_DistanceCountsDifferingBits ==
    hd_result # -1 =>
        /\ hd_result = Cardinality({k \in Bits64 : Bit(hd_left, k) # Bit(hd_right, k)})
        /\ (hd_left = DocLeft /\ hd_right = DocRight) => hd_result = 11

C2_Witness == hd_left = DocLeft /\ hd_right = DocRight /\ hd_result = 11

\* C3: get_dhash of an image of zero width or height ends in the error
\* InvalidImage, with no grid and no hash produced.
C3_ZeroDimFailsInvalidImage ==
    (Img # NoImage /\ ZeroDim(Img) /\ pc # "get_dhash") =>
        /\ pc = "invalid_image"
        /\ buffered_image = NoGrid
        /\ input_dhash = NoHash

\* C4: for a source of at least 1x1 pixels the signature image that
\* to_grey_signature_image has just returned is exactly 9 wide and 8 high and
\* each of its samples is the luma of one source pixel.
C4_GridIsNineByEightOfSourceLumas ==
    (pc = "extract" /\ cur_value = 0 /\ ~ZeroDim(Img)) =>
        /\ buffered_image.width = IMG_SCALE + 1
        /\ buffered_image.height = IMG_SCALE
        /\ DOMAIN buffered_image.px = Coords(IMG_SCALE + 1, IMG_SCALE)
        /\ \A c \in DOMAIN buffered_image.px :
             \E q \in DOMAIN Img.px : buffered_image.px[c] = rgb_to_luma(Img.px[q])

\* a source smaller than 9x8 with two different lumas has been upsampled
C4_Witness ==
    /\ pc = "extract"
    /\ cur_value = 0
    /\ Img.width \in 1..IMG_SCALE
    /\ Img.height \in 1..(IMG_SCALE - 1)
    /\ buffered_image.width = IMG_SCALE + 1
    /\ ~Uniform(buffered_image)

\* C5: a grid of one intensity returns the hash 0.
C5_UniformGridHashesToZero ==
    (Returned /\ Uniform(buffered_image)) => value = Zero64

C5_Witness ==
    /\ Returned
    /\ ~ZeroDim(Img)
    /\ Uniform(buffered_image)
    /\ buffered_image.px[<<0, 0>>] > 0
    /\ value = Zero64

\* C6: a grid whose column i is (scale - i) * 10 in every row returns the hash
\* with all 64 bits set, and no addition of the packing overflowed.
C6_RampHashesToAllOnes ==
    IsRamp(buffered_image) =>
        /\ ~wrapped
        /\ pc = "panicked" => ZeroDim(Img)
        /\ Returned => value = Ones64

C6_Witness == Returned /\ IsRamp(buffered_image) /\ value = Ones64 /\ ~wrapped

\* C7: when the second image is the first with one offset added to every
\* channel and nothing clipped, the two hashes are equal.
C7_BrightnessInvariance ==
    (compare_dhash # NoHash
       /\ compare.width = input.width
       /\ compare.height = input.height
       /\ \E c \in {compare.px[q][1] - input.px[q][1] : q \in DOMAIN input.px} :
             c > 0 /\ compare = Brighten(input, c) /\ NoClip(input, c))
      => compare_dhash = input_dhash

C7_Witness ==
    /\ compare_dhash # NoHash
    /\ ~ZeroDim(input)
    /\ compare = Brighten(input, 20)
    /\ compare # input
    /\ NoClip(input, 20)
    /\ input_dhash \notin {Zero64, Ones64}
    /\ compare_dhash = input_dhash

\* C8 as stated: two renderings of the gradient at different dimensions have
\* hashes at most 5 bits apart.
C8_ScaledGradientsWithinFive ==
    (distance # -1 /\ input \in GradientImages /\ compare \in GradientImages)
      => distance <= 5

\* C8 amended: two renderings of the gradient that are both at least 9 pixels
\* wide have hashes at most 5 bits apart.
C8_WideGradientsWithinFive ==
    (distance # -1 /\ input \in GradientImages /\ compare \in GradientImages
       /\ input.width >= IMG_SCALE + 1 /\ compare.width >= IMG_SCALE + 1)
      => distance <= 5

C8_Witness ==
    /\ distance # -1
    /\ input \in GradientImages
    /\ compare \in GradientImages
    /\ input.width >= IMG_SCALE + 1
    /\ compare.width > input.width
    /\ compare.height # input.height
    /\ distance <= 5

\* C9: hamming_distance(a, b) = hamming_distance(b, a).
C9_DistanceCommutes ==
    (hd_prev # -1 /\ hd_result # -1) => hd_result = hd_prev

C9_Witness ==
    /\ hd_prev # -1
    /\ hd_result = hd_prev
    /\ hd_left # hd_right
    /\ hd_result > 0

\* C10: in the extraction loop cur_value is i*8 + j and below 64, both pixels
\* read lie inside the 9x8 grid, the cells before cur_value have been compared
\* once and the others not yet; the loop ends with cur_value = 64 and every
\* cell compared once; the loop never panics.
C10_ExtractionLoopInBounds ==
    /\ pc = "extract" =>
         /\ i \in 0..(IMG_SCALE - 1)
         /\ j \in 0..(IMG_SCALE - 1)
         /\ cur_value = i * IMG_SCALE + j
         /\ cur_value < IMG_SCALE * IMG_SCALE
         /\ cur_value \in DOMAIN bits
         /\ i + 1 <= IMG_SCALE
         /\ InBounds(buffered_image, i, j)
         /\ InBounds(buffered_image, i + 1, j)
         /\ visits = [c \in Coords(IMG_SCALE, IMG_SCALE) |->
                        IF c[1] * IMG_SCALE + c[2] < cur_value THEN 1 ELSE 0]
    /\ pc \in {"pack", "return"} =>
         /\ cur_value = IMG_SCALE * IMG_SCALE
         /\ visits = [c \in Coords(IMG_SCALE, IMG_SCALE) |-> 1]
    /\ pc = "panicked" => ZeroDim(Img)

\* the last pass of the loop: the rightmost comparison column, bottom row
C10_Witness ==
    /\ pc = "extract"
    /\ ~ZeroDim(Img)
    /\ i = IMG_SCALE - 1
    /\ j = IMG_SCALE - 1
    /\ cur_value = IMG_SCALE * IMG_SCALE - 1
    /\ InBounds(buffered_image, i + 1, j)

====
